---- MODULE Spec2Model ----
(***************************************************************************)
(* A model of src/app.py: the macro-data reconciliation (get_macro_data,   *)
(* and the merge with the stock series), the fair-value regression of tab1 *)
(* and the VPIN engine (calculate_vpin, and its dashboard caller in tab4). *)
(*                                                                         *)
(* Numbers are exact integers.  A quantity the code holds as a float is    *)
(* held as a scaled integer or as a numerator/denominator pair; each such  *)
(* scale is stated where the quantity is defined.                          *)
(***************************************************************************)
EXTENDS Integers, Sequences, FiniteSets

VARIABLES
    pc,             \* where the script run stands
    series,         \* get_macro_data: the eight fetched series
    df,             \* get_macro_data: the frame it returns (rows in index order)
    macro_ret,      \* get_macro_data: "df" or "None" (the except branch)
    merged_df,      \* main logic: the merged panel
    train_start,    \* tab1: the first instant of the training window
    fit,            \* tab1: the outcome of the model training block
    bars,           \* calculate_vpin: the input bars
    bucket_volume,  \* calculate_vpin: its bucket_volume argument
    window,         \* calculate_vpin: its window argument
    buckets,        \* calculate_vpin: the frame it returns
    vpin_ret        \* calculate_vpin / tab4: how the call ended

vars == <<pc, series, df, macro_ret, merged_df, train_start, fit,
          bars, bucket_volume, window, buckets, vpin_ret>>

macroVars == <<series, df, macro_ret>>
fitVars == <<train_start, fit>>
vpinVars == <<bars, bucket_volume, window, buckets, vpin_ret>>

(***************************************************************************)
(* Bounds of the model.                                                    *)
(***************************************************************************)
MaxInstants == 3

Instants == 1..MaxInstants

(***************************************************************************)
(* Generic helpers.                                                        *)
(***************************************************************************)
SetMin(S) == CHOOSE x \in S : \A y \in S : x <= y

SetMax(S) == CHOOSE x \in S : \A y \in S : x >= y

RECURSIVE SortedSeq(_)
SortedSeq(S) ==
    IF S = {} THEN << >>
    ELSE LET m == SetMin(S) IN <<m>> \o SortedSeq(S \ {m})

Abs(x) == IF x < 0 THEN -x ELSE x

\* The sequence with the elements of f, a function on 1..n.
AsSeq(f) == << >> \o f

(***************************************************************************)
(* Cells of a pandas frame: a number or NaN.                               *)
(***************************************************************************)
NaN == [na |-> TRUE, v |-> 0]

Val(x) == [na |-> FALSE, v |-> x]

(***************************************************************************)
(* get_macro_data.                                                         *)
(***************************************************************************)
Columns == {"Fed_Assets", "TGA", "RRP", "Yield_Curve", "CCC", "BB", "T3M", "RRP_Rate"}

RateColumns == {"Yield_Curve", "CCC", "BB", "T3M", "RRP_Rate"}

\* The value a provider reports for column c at instant t.  Fed_Assets and
\* TGA are in millions of dollars, RRP in billions, the rates in basis points.
Obs(c, t) ==
    CASE c = "Fed_Assets"  -> 5000000 + 1000 * (t - 1)
      [] c = "TGA"         -> 100000 + 100 * (t - 1)
      [] c = "RRP"         -> 50 * t
      [] c = "Yield_Curve" -> 150 - 10 * t
      [] c = "CCC"         -> 900 + 5 * t
      [] c = "BB"          -> 300 + 2 * t
      [] c = "T3M"         -> 530 + t
      [] c = "RRP_Rate"    -> 520 + 5 * t

\* A fetched series: its index idx, NaN at the instants of nan.
FetchedSeries(c, idx, nan) ==
    [t \in idx |-> IF t \in nan THEN NaN ELSE Val(Obs(c, t))]

NoSeries == [c \in Columns |-> [t \in {} |-> NaN]]

\* The shapes a rate series is drawn from: complete, starting late, no points.
RateShapes == {Instants, Instants \ {1}, {}}

\* The rate series that share the drawn shape: the facility's award rate
\* alone, or all of them.
IrregularRates == {{"RRP_Rate"}, RateColumns}

\* pd.DataFrame({...}): the index is the sorted union of the series' indexes,
\* a cell is NaN where its series has no entry.
UnionIndex(s) == UNION {DOMAIN s[c] : c \in Columns}

BuildFrame(s) ==
    LET idx == SortedSeq(UnionIndex(s))
    IN  AsSeq([i \in 1..Len(idx) |->
                  [t    |-> idx[i],
                   vals |-> [c \in Columns |->
                                IF idx[i] \in DOMAIN s[c] THEN s[c][idx[i]] ELSE NaN]]])

\* fillna(method='bfill'): up the rows, a NaN cell takes the next valid value
\* below it in its column.
RECURSIVE NextValid(_, _, _)
NextValid(rows, c, i) ==
    IF i > Len(rows) THEN NaN
    ELSE IF rows[i].vals[c].na THEN NextValid(rows, c, i + 1)
    ELSE rows[i].vals[c]

Bfill(rows) ==
    [i \in 1..Len(rows) |->
        [t |-> rows[i].t, vals |-> [c \in Columns |-> NextValid(rows, c, i)]]]

\* fillna(method='ffill'): down the rows, a NaN cell takes the last valid
\* value above it in its column; a leading NaN stays NaN.
RECURSIVE LastValid(_, _, _)
LastValid(rows, c, i) ==
    IF i = 0 THEN NaN
    ELSE IF rows[i].vals[c].na THEN LastValid(rows, c, i - 1)
    ELSE rows[i].vals[c]

Ffill(rows) ==
    [i \in 1..Len(rows) |->
        [t |-> rows[i].t, vals |-> [c \in Columns |-> LastValid(rows, c, i)]]]

\* dropna(): the rows without a NaN cell.
RowComplete(r) == \A c \in Columns : ~r.vals[c].na

Dropna(rows) == SelectSeq(rows, RowComplete)

\* The divisor of line 65.  Net_Liquidity is held as its numerator over it.
UnitDivisor == 1000000

\* Lines 65-67: the derived columns, row by row.
Derive(r) ==
    [t             |-> r.t,
     vals          |-> [c \in Columns |-> r.vals[c].v],
     Net_Liquidity |-> r.vals["Fed_Assets"].v - r.vals["TGA"].v - r.vals["RRP"].v,
     Credit_Stress |-> r.vals["CCC"].v - r.vals["BB"].v,
     Arb_Spread    |-> r.vals["T3M"].v - r.vals["RRP_Rate"].v]

\* Lines 56-69: the frame get_macro_data returns for the fetched series s.
MacroFrame(s) ==
    LET dense == Dropna(Ffill(BuildFrame(s)))
    IN  [i \in 1..Len(dense) |-> Derive(dense[i])]

\* get_macro_data, the try branch: every fetch succeeds.  Fed_Assets and TGA
\* come with any index, RRP with any index and NaN entries, and the rate
\* series of IrregularRates with any of RateShapes (the others complete).
GetMacroData ==
    /\ pc = "idle"
    /\ \E fa \in SUBSET Instants, tga \in SUBSET Instants, rrp \in SUBSET Instants :
         \E rrp_nan \in SUBSET rrp, irr \in IrregularRates, shape \in RateShapes :
            LET s == [c \in Columns |->
                        CASE c = "Fed_Assets" -> FetchedSeries(c, fa, {})
                          [] c = "TGA"        -> FetchedSeries(c, tga, {})
                          [] c = "RRP"        -> FetchedSeries(c, rrp, rrp_nan)
                          [] c \in irr        -> FetchedSeries(c, shape, {})
                          [] OTHER            -> FetchedSeries(c, Instants, {})]
            IN  /\ series' = s
                /\ df' = MacroFrame(s)
    /\ macro_ret' = "df"
    /\ pc' = "returned"
    /\ UNCHANGED <<merged_df, fitVars, vpinVars>>

\* get_macro_data, the except branch (lines 70-72): a fetch raised.
GetMacroDataFails ==
    /\ pc = "idle"
    /\ series' = NoSeries
    /\ df' = << >>
    /\ macro_ret' = "None"
    /\ pc' = "returned"
    /\ UNCHANGED <<merged_df, fitVars, vpinVars>>

\* The price of the compared index at instant t.
StockObs(t) == 4000 + 100 * t

\* Lines 132-135: with a frame returned, the stock series is fetched from
\* df.index[0] on and joined; the rows with every column present are kept.
\* df.index[0] of an empty frame raises IndexError, which nothing catches.
MergeStock ==
    /\ pc = "returned"
    /\ macro_ret = "df"
    /\ IF Len(df) = 0
       THEN /\ pc' = "IndexError"
            /\ merged_df' = << >>
       ELSE \E stock \in SUBSET {t \in Instants : t >= df[1].t} :
               LET InStock(r) == r.t \in stock
                   kept == SelectSeq(df, InStock)
               IN  /\ merged_df' = [i \in 1..Len(kept) |->
                                      [t             |-> kept[i].t,
                                       Net_Liquidity |-> kept[i].Net_Liquidity,
                                       Stock_Price   |-> StockObs(kept[i].t)]]
                   /\ pc' = "merged"
    /\ series' = NoSeries
    /\ UNCHANGED <<df, macro_ret, fitVars, vpinVars>>

\* Line 132 with None returned: the script shows nothing more.
SkipOnNone ==
    /\ pc = "returned"
    /\ macro_ret = "None"
    /\ pc' = "done"
    /\ UNCHANGED <<macroVars, merged_df, fitVars, vpinVars>>

NoFit == [outcome |-> "unset"]

\* The script is run again from the top.
RerunMacro ==
    /\ pc \in {"merged", "IndexError", "done"}
    /\ pc' = "idle"
    /\ series' = NoSeries
    /\ df' = << >>
    /\ macro_ret' = "unset"
    /\ merged_df' = << >>
    /\ UNCHANGED <<fitVars, vpinVars>>

Init ==
    /\ pc = "idle"
    /\ series = NoSeries
    /\ df = << >>
    /\ macro_ret = "unset"
    /\ merged_df = << >>
    /\ train_start = 0
    /\ fit = NoFit
    /\ bars = << >>
    /\ bucket_volume = 0
    /\ window = 0
    /\ buckets = << >>
    /\ vpin_ret = "unset"

NextMacro ==
    \/ GetMacroData
    \/ GetMacroDataFails
    \/ MergeStock
    \/ SkipOnNone
    \/ RerunMacro

SpecMacro == Init /\ [][NextMacro]_vars

(***************************************************************************)
(* Claims about get_macro_data, checked under SpecMacro.                   *)
(***************************************************************************)
\* Column c has an observation (an entry that is not NaN) at instant t.
Observed(c, t) == t \in DOMAIN series[c] /\ ~series[c][t].na

ObservedBy(c, t) == {u \in 1..t : Observed(c, u)}

\* The instants of the union at which every column has been observed.
DenseInstants == {t \in UnionIndex(series) : \A c \in Columns : ObservedBy(c, t) # {}}

FrameReturned == pc = "returned" /\ macro_ret = "df"

\* C1: the returned frame holds exactly the instants of the union at which
\* every column has an observation at or before the instant, in strictly
\* increasing order, and every cell is its column's most recent observation
\* at or before the row's instant.
C1_ForwardFillDense ==
    FrameReturned =>
        /\ {df[i].t : i \in 1..Len(df)} = DenseInstants
        /\ \A i \in 1..(Len(df) - 1) : df[i].t < df[i + 1].t
        /\ \A i \in 1..Len(df) : \A c \in Columns :
              df[i].vals[c] = series[c][SetMax(ObservedBy(c, df[i].t))].v

\* C1's case: a frame is returned in which a cell was carried forward over
\* an instant its series does not list, and a row of the union was dropped.
C1_Witness ==
    /\ FrameReturned
    /\ \E i \in 1..Len(df) : \E c \in Columns : df[i].t \notin DOMAIN series[c]
    /\ Len(df) >= 2
    /\ Len(df) < Cardinality(UnionIndex(series))

\* The instant of RRP's first observation.
RrpInception == SetMin({t \in Instants : Observed("RRP", t)})

\* C2: at every instant of the axis before RRP's first observation at which
\* the other columns have been observed, the frame keeps a row, with RRP = 0.
C2_ZeroFillBeforeInception ==
    (FrameReturned /\ \E t \in Instants : Observed("RRP", t)) =>
        \A t \in UnionIndex(series) :
            (t < RrpInception /\ \A c \in Columns \ {"RRP"} : ObservedBy(c, t) # {})
                => \E i \in 1..Len(df) : df[i].t = t /\ df[i].vals["RRP"] = 0

\* C3: when every fetch succeeds and the union of instants is empty or fewer
\* than two dense rows remain, the call ends in InsufficientDataError, not in
\* a returned frame.
C3_InsufficientDataReported ==
    (pc = "returned" /\ macro_ret # "None"
        /\ (UnionIndex(series) = {} \/ Cardinality(DenseInstants) < 2))
      => macro_ret = "InsufficientDataError"

\* C4: net liquidity is Fed_Assets / 10^6 - TGA / 10^6 - RRP / 10^3, which over
\* the common denominator 10^6 has the numerator Fed_Assets - TGA - 1000 * RRP.
C4_NetLiquidityPerColumnDivisor ==
    FrameReturned =>
        \A i \in 1..Len(df) :
            /\ UnitDivisor = 1000000
            /\ df[i].Net_Liquidity =
                  df[i].vals["Fed_Assets"] - df[i].vals["TGA"] - 1000 * df[i].vals["RRP"]

(***************************************************************************)
(* tab1: the fair-value model (lines 144-193).                             *)
(*                                                                         *)
(* Instants are period ordinals.  The panel's rows are [t, Net_Liquidity,  *)
(* Stock_Price] with small integer values.  slope, intercept and r_squared *)
(* are exact fractions [num, den]; Fair_Value and Deviation are held as    *)
(* numerators over the slope's denominator.                                *)
(***************************************************************************)
MaxPre == 2

MaxExtra == 2

\* Line 147: the row count the training window must exceed.
MinTrainRows == 30

\* The instants f"{reg_start_year}-01-01" stands for, for two slider years.
TrainStarts == {10, 20}

\* The values a row before the training window is drawn from.
PreCells == {<<0, 0>>, <<2, 9>>}

\* The variants of the in-window data.
Variants == {0, 1, 2}

BaseX(k) == k % 3

BaseY(k, v) == 2 * BaseX(k) + 1 + v * (k % 2)

\* A panel with Len(pre) rows before start and n rows from start on.
Panel(start, pre, n, v) ==
    [i \in 1..(Len(pre) + n) |->
        IF i <= Len(pre)
        THEN [t |-> start - Len(pre) + i - 1,
              Net_Liquidity |-> pre[i][1], Stock_Price |-> pre[i][2]]
        ELSE [t |-> start + (i - Len(pre)) - 1,
              Net_Liquidity |-> BaseX(i - Len(pre)),
              Stock_Price |-> BaseY(i - Len(pre), v)]]

PreRows == UNION {[1..k -> PreCells] : k \in 0..MaxPre}

RECURSIVE SumTo(_, _)
SumTo(q, k) == IF k = 0 THEN 0 ELSE SumTo(q, k - 1) + q[k]

SumSeq(q) == SumTo(q, Len(q))

\* A mis-selection of the training rows: the whole panel.
TrainDataAll(rows, start) == rows

\* Line 145: merged_df[merged_df.index >= train_start].
TrainData(rows, start) ==
    LET InWindow(r) == r.t >= start
    IN  SelectSeq(rows, InWindow)

\* A mis-stated guard: at least MinTrainRows rows.
EnoughTrainDataGe(n) == n >= MinTrainRows

\* Line 147: len(train_data) > 30.
EnoughTrainData(n) == n > MinTrainRows

\* Lines 148-155: np.polyfit(x, y, 1) and np.corrcoef(x, y)[0, 1] ** 2, in
\* closed form over the training rows.  den is n * Sxx - Sx^2; it is 0 only
\* when every x is the same, which no panel drawn here has.
FitModel(train) ==
    LET n   == Len(train)
        Sx  == SumSeq([i \in 1..n |-> train[i].Net_Liquidity])
        Sy  == SumSeq([i \in 1..n |-> train[i].Stock_Price])
        Sxy == SumSeq([i \in 1..n |-> train[i].Net_Liquidity * train[i].Stock_Price])
        Sxx == SumSeq([i \in 1..n |-> train[i].Net_Liquidity * train[i].Net_Liquidity])
        Syy == SumSeq([i \in 1..n |-> train[i].Stock_Price * train[i].Stock_Price])
        den == n * Sxx - Sx * Sx
        cov == n * Sxy - Sx * Sy
        vy  == n * Syy - Sy * Sy
    IN  [slope     |-> [num |-> cov, den |-> den],
         intercept |-> [num |-> Sy * Sxx - Sx * Sxy, den |-> den],
         r_squared |-> [num |-> cov * cov, den |-> den * vy]]

\* Lines 157-159: the projection of the model on every row of the panel.
\* Deviation_Pct is Deviation / Fair_Value * 100; its den is 0 where the fair
\* value is 0 (the float division yields inf or NaN there, no exception).
Project(m, rows) ==
    LET fv(i)  == m.slope.num * rows[i].Net_Liquidity + m.intercept.num
        dev(i) == rows[i].Stock_Price * m.slope.den - fv(i)
    IN  [Fair_Value    |-> [i \in 1..Len(rows) |-> fv(i)],
         Deviation     |-> [i \in 1..Len(rows) |-> dev(i)],
         Deviation_Pct |-> [i \in 1..Len(rows) |-> [num |-> dev(i) * 100, den |-> fv(i)]]]

\* Lines 144-193 without the display: the outcome of the training block.
Tab1Outcome(rows, start) ==
    LET train == TrainData(rows, start)
    IN  IF EnoughTrainData(Len(train))
        THEN LET m == FitModel(train)
                 p == Project(m, rows)
             IN  [outcome       |-> "fitted",
                  slope         |-> m.slope,
                  intercept     |-> m.intercept,
                  r_squared     |-> m.r_squared,
                  Fair_Value    |-> p.Fair_Value,
                  Deviation     |-> p.Deviation,
                  Deviation_Pct |-> p.Deviation_Pct]
        ELSE [outcome |-> "warning"]

\* A script run reaches tab1 with a merged panel and a slider year.
Tab1 ==
    /\ pc = "idle"
    /\ \E start \in TrainStarts, pre \in PreRows, v \in Variants :
         \E n \in (MinTrainRows - 1)..(MinTrainRows + MaxExtra) :
            LET rows == AsSeq(Panel(start, pre, n, v))
            IN  /\ merged_df' = rows
                /\ train_start' = start
                /\ fit' = Tab1Outcome(rows, start)
    /\ pc' = "tab1"
    /\ UNCHANGED <<macroVars, vpinVars>>

\* The script runs again on a snapshot in which the provider has revised
\* rows before the training window (their number and values) and no other.
Tab1Refreshed ==
    /\ pc \in {"tab1", "refreshed"}
    /\ \E pre \in PreRows :
         LET old  == TrainData(merged_df, train_start)
             rows == AsSeq([i \in 1..(Len(pre) + Len(old)) |->
                        IF i <= Len(pre)
                        THEN [t |-> train_start - Len(pre) + i - 1,
                              Net_Liquidity |-> pre[i][1], Stock_Price |-> pre[i][2]]
                        ELSE old[i - Len(pre)]])
         IN  /\ rows # merged_df
             /\ merged_df' = rows
             /\ fit' = Tab1Outcome(rows, train_start)
    /\ pc' = "refreshed"
    /\ UNCHANGED <<macroVars, train_start, vpinVars>>

RerunFit ==
    /\ pc \in {"tab1", "refreshed"}
    /\ pc' = "idle"
    /\ merged_df' = << >>
    /\ train_start' = 0
    /\ fit' = NoFit
    /\ UNCHANGED <<macroVars, vpinVars>>

NextFit ==
    \/ Tab1
    \/ Tab1Refreshed
    \/ RerunFit

SpecFit == Init /\ [][NextFit]_vars

(***************************************************************************)
(* Claims about tab1, checked under SpecFit.                               *)
(***************************************************************************)
Tab1Ran == pc \in {"tab1", "refreshed"}

\* The number of rows at or after train_start, counted on the panel itself.
TrainCount == Cardinality({i \in 1..Len(merged_df) : merged_df[i].t >= train_start})

C6_ProjectionAndWindowOnly ==
    [][(Tab1Ran' /\ fit'.outcome = "fitted") =>
          /\ DOMAIN fit'.Fair_Value = 1..Len(merged_df')
          /\ \A i \in 1..Len(merged_df') :
                fit'.Fair_Value[i] =
                    fit'.slope.num * merged_df'[i].Net_Liquidity + fit'.intercept.num
          /\ fit'.slope.den = fit'.intercept.den
          /\ (/\ Tab1Ran
              /\ fit.outcome = "fitted"
              /\ train_start' = train_start
              /\ \A j \in 1..Len(merged_df') :
                    merged_df'[j].t >= train_start' =>
                        \E i \in 1..Len(merged_df) : merged_df[i] = merged_df'[j]
              /\ \A i \in 1..Len(merged_df) :
                    merged_df[i].t >= train_start =>
                        \E j \in 1..Len(merged_df') : merged_df'[j] = merged_df[i])
             => (fit'.slope = fit.slope /\ fit'.intercept = fit.intercept)]_vars

\* C6's case: a model fitted on a refreshed snapshot and projected on a row
\* before the training window.
C6_Witness ==
    /\ pc = "refreshed"
    /\ fit.outcome = "fitted"
    /\ \E i \in 1..Len(merged_df) :
          merged_df[i].t < train_start /\ i \in DOMAIN fit.Fair_Value

(***************************************************************************)
(* calculate_vpin (lines 85-125) and its caller in tab4 (lines 240-311).   *)
(*                                                                         *)
(* Prices and volumes are integers.  A probability is held in thousandths, *)
(* so Buy_Vol, Sell_Vol and OI are in thousandths of a volume unit, and a  *)
(* VPIN cell [num, den] stands for num / (1000 * den).                     *)
(***************************************************************************)
MaxBars == 3

MaxWindow == 3

\* Line 85: the default of the window parameter.
WindowDefault == 50

\* Line 97: 1 / 0.0001, the reciprocal of the sigma substituted for 0.
SigmaFloorInv == 10000

\* Line 258: the minutes of average volume that make one bucket.
BucketMinutes == 15

\* The per-bar volumes, the close-to-close moves and the bucket_volume
\* arguments the calls are drawn from.
Volumes == {0, 1, 2}

Moves == {-1, 0, 1}

BucketVolumes == {-2, 0, 1, 2, 3}

\* The bars with volumes vs and moves ms (Len(ms) = Len(vs) - 1), one a minute.
BarsOf(vs, ms) ==
    [i \in 1..Len(vs) |->
        [Datetime |-> i,
         Close    |-> 10 + SumSeq([j \in 1..(i - 1) |-> ms[j]]),
         Volume   |-> vs[i]]]

BarInputs ==
    UNION {{BarsOf(vs, ms) : vs \in [1..n -> Volumes],
                             ms \in [1..(IF n = 0 THEN 0 ELSE n - 1) -> Moves]}
           : n \in 0..MaxBars}

\* diff() with its leading NaN filled by 0.
DeltaPFilled(b) ==
    AsSeq([i \in 1..Len(b) |->
              IF i = 1 THEN Val(0) ELSE Val(b[i].Close - b[i - 1].Close)])

\* Line 91: df['Close'].diff(); the first bar has no predecessor.
DeltaP(b) ==
    AsSeq([i \in 1..Len(b) |->
              IF i = 1 THEN NaN ELSE Val(b[i].Close - b[i - 1].Close)])

\* Lines 95-97: the square of sigma as a fraction.  std() is the sample
\* deviation (ddof = 1) of the valid dP, NaN with fewer than two of them;
\* a sigma of 0 is replaced by 0.0001.
SigmaSq(dP) ==
    LET m  == Cardinality({i \in 1..Len(dP) : ~dP[i].na})
        S1 == SumSeq([i \in 1..Len(dP) |-> dP[i].v])
        S2 == SumSeq([i \in 1..Len(dP) |-> dP[i].v * dP[i].v])
    IN  IF m < 2 THEN [na |-> TRUE, num |-> 0, den |-> 1]
        ELSE IF m * S2 - S1 * S1 = 0
        THEN [na |-> FALSE, num |-> 1, den |-> SigmaFloorInv * SigmaFloorInv]
        ELSE [na |-> FALSE, num |-> m * S2 - S1 * S1, den |-> m * (m - 1)]

\* norm.cdf(d / sigma) in thousandths, for z = d / sigma given by z^2 = a / c:
\* the value of the normal CDF at the middle of the band |z| falls in.
NormCdf(d, s2) ==
    LET a  == d * d * s2.den
        c  == s2.num
        up == IF a = 0 THEN 500
              ELSE IF 4 * a < c THEN 599
              ELSE IF a < c THEN 773
              ELSE IF a < 4 * c THEN 933
              ELSE IF a < 9 * c THEN 994
              ELSE IF a < 16 * c THEN 999
              ELSE 1000
    IN  IF d >= 0 THEN up ELSE 1000 - up

\* Line 99: prob_buy, NaN where dP or sigma is NaN.
ProbBuy(dP, s2) ==
    AsSeq([i \in 1..Len(dP) |->
              IF dP[i].na \/ s2.na THEN NaN ELSE Val(NormCdf(dP[i].v, s2))])

\* Lines 101-102.
BuyVol(b, prob) ==
    AsSeq([i \in 1..Len(b) |->
              IF prob[i].na THEN NaN ELSE Val(b[i].Volume * prob[i].v)])

SellVol(b, prob) ==
    AsSeq([i \in 1..Len(b) |->
              IF prob[i].na THEN NaN ELSE Val(b[i].Volume * (1000 - prob[i].v))])

\* Line 105: df['Volume'].cumsum().
RECURSIVE CumVol(_)
CumVol(b) ==
    IF b = << >> THEN << >>
    ELSE LET front == CumVol(SubSeq(b, 1, Len(b) - 1))
         IN  Append(front, (IF front = << >> THEN 0 ELSE front[Len(front)])
                              + b[Len(b)].Volume)

\* A division rounded to the nearest integer.
RoundDiv(a, d) ==
    IF d > 0 THEN (2 * a + d) \div (2 * d) ELSE (2 * (-a) + (-d)) \div (2 * (-d))

\* Python's // on integers with a divisor other than 0: the floor.
FloorDiv(a, d) == IF d > 0 THEN a \div d ELSE (-a) \div (-d)

\* Line 107: the bucket of every bar.
BucketIds(cum, B) == AsSeq([i \in 1..Len(cum) |-> FloorDiv(cum[i], B)])

\* The sum of a group's cells that skips NaN (0 when all are NaN).
GroupSum(cells) ==
    SumSeq([i \in 1..Len(cells) |-> IF cells[i].na THEN 0 ELSE cells[i].v])

\* rolling(window=w, min_periods=1).sum(): sums over partial windows too.
RollingSumPartial(oi, w) ==
    AsSeq([k \in 1..Len(oi) |->
              Val(SumSeq([j \in 1..(IF k < w THEN k ELSE w) |-> oi[k + 1 - j]]))])

\* Line 123: rolling(window=w).sum().  The running sum adds the entering
\* value and removes the leaving one; a position with fewer than w
\* observations is NaN.
RECURSIVE RunningSum(_, _, _)
RunningSum(oi, w, k) ==
    IF k = 0 THEN 0
    ELSE RunningSum(oi, w, k - 1) + oi[k] - (IF k > w THEN oi[k - w] ELSE 0)

RollingSum(oi, w) ==
    AsSeq([k \in 1..Len(oi) |-> IF k < w THEN NaN ELSE Val(RunningSum(oi, w, k))])

\* Lines 110-115: groupby('Bucket_ID').agg(...), the groups in ascending
\* Bucket_ID, each with its sums and the Close and Datetime of its last bar.
GroupBuckets(b, bid, buy, sell) ==
    LET ids == SortedSeq({bid[i] : i \in 1..Len(b)})
        Group(k) ==
            LET InGroup(i) == bid[i] = ids[k]
                members == SelectSeq([i \in 1..Len(b) |-> i], InGroup)
            IN  [Bucket_ID |-> ids[k],
                 Buy_Vol   |-> GroupSum([j \in 1..Len(members) |-> buy[members[j]]]),
                 Sell_Vol  |-> GroupSum([j \in 1..Len(members) |-> sell[members[j]]]),
                 Close     |-> b[members[Len(members)]].Close,
                 Datetime  |-> b[members[Len(members)]].Datetime]
    IN  AsSeq([k \in 1..Len(ids) |-> Group(k)])

\* Lines 89-123: the frame of buckets with OI and VPIN.
BucketFrame(b, B, w) ==
    LET dP   == DeltaP(b)
        prob == ProbBuy(dP, SigmaSq(dP))
        g    == GroupBuckets(b, BucketIds(CumVol(b), B), BuyVol(b, prob), SellVol(b, prob))
        oi   == AsSeq([k \in 1..Len(g) |-> Abs(g[k].Buy_Vol - g[k].Sell_Vol)])
        roll == RollingSum(oi, w)
    IN  [k \in 1..Len(g) |->
            [Bucket_ID |-> g[k].Bucket_ID,
             Buy_Vol   |-> g[k].Buy_Vol,
             Sell_Vol  |-> g[k].Sell_Vol,
             Close     |-> g[k].Close,
             Datetime  |-> g[k].Datetime,
             OI        |-> oi[k],
             VPIN      |-> [na  |-> roll[k].na,
                            num |-> roll[k].v,
                            den |-> B * w]]]

\* calculate_vpin(b, B, w).  With B = 0 the floor division of line 107 gives
\* inf or NaN for every bar, and astype(int) raises ValueError on them; with
\* no bar there is nothing to convert and an empty frame is returned.
CalculateVpin(b, B, w) ==
    IF B = 0 /\ Len(b) > 0
    THEN [ret |-> "ValueError", buckets |-> << >>]
    ELSE IF Len(b) = 0
    THEN [ret |-> "buckets", buckets |-> << >>]
    ELSE [ret |-> "buckets", buckets |-> BucketFrame(b, B, w)]

\* A call of calculate_vpin with any bars, bucket volume and window.
CallVpin ==
    /\ pc = "idle"
    /\ \E B \in BucketVolumes, b \in BarInputs, w \in 1..MaxWindow :
         /\ bars' = b
         /\ bucket_volume' = B
         /\ window' = w
         /\ LET r == CalculateVpin(b, B, w)
            IN  buckets' = r.buckets /\ vpin_ret' = r.ret
    /\ pc' = "called"
    /\ UNCHANGED <<macroVars, merged_df, fitVars>>

\* Line 258: int(avg_vol_per_min * 15) for non-negative volumes.
DynamicBucket(b) == (BucketMinutes * CumVol(b)[Len(b)]) \div Len(b)

\* tab4, lines 244-261: the download gave bars; the bucket size is derived
\* from them and calculate_vpin runs with its default window.  An exception
\* of the call is caught at line 310.
Tab4Scan ==
    /\ pc = "idle"
    /\ \E b \in BarInputs :
         /\ Len(b) > 0
         /\ bars' = b
         /\ bucket_volume' = DynamicBucket(b)
         /\ window' = WindowDefault
         /\ LET r == CalculateVpin(b, DynamicBucket(b), WindowDefault)
            IN  buckets' = r.buckets /\ vpin_ret' = r.ret
    /\ pc' = "tab4"
    /\ UNCHANGED <<macroVars, merged_df, fitVars>>

\* tab4, lines 246 and 308-309: the download gave no bar.
Tab4NoData ==
    /\ pc = "idle"
    /\ bars' = << >>
    /\ bucket_volume' = 0
    /\ window' = 0
    /\ buckets' = << >>
    /\ vpin_ret' = "no_data"
    /\ pc' = "tab4"
    /\ UNCHANGED <<macroVars, merged_df, fitVars>>

RerunVpin ==
    /\ pc \in {"called", "tab4"}
    /\ pc' = "idle"
    /\ bars' = << >>
    /\ bucket_volume' = 0
    /\ window' = 0
    /\ buckets' = << >>
    /\ vpin_ret' = "unset"
    /\ UNCHANGED <<macroVars, merged_df, fitVars>>

NextVpin ==
    \/ CallVpin
    \/ Tab4Scan
    \/ Tab4NoData
    \/ RerunVpin

SpecVpin == Init /\ [][NextVpin]_vars

(***************************************************************************)
(* Claims about calculate_vpin, checked under SpecVpin.                    *)
(***************************************************************************)
VpinCalled == pc \in {"called", "tab4"} /\ vpin_ret # "no_data"

VpinReturned == VpinCalled /\ vpin_ret = "buckets"

\* The volume traded up to and including bar i.
VolumeThrough(i) == SumSeq([j \in 1..i |-> bars[j].Volume])

\* The integer q with q <= VolumeThrough(i) / bucket_volume < q + 1.
IdOfBar(i) ==
    LET c == VolumeThrough(i)
        T == VolumeThrough(Len(bars))
    IN  CHOOSE q \in (-T)..T :
            IF bucket_volume > 0
            THEN q * bucket_volume <= c /\ c < (q + 1) * bucket_volume
            ELSE q * bucket_volume >= c /\ c > (q + 1) * bucket_volume

\* The bars of bucket k.
Members(k) == {i \in 1..Len(bars) : IdOfBar(i) = buckets[k].Bucket_ID}

RECURSIVE VolumeOf(_)
VolumeOf(S) ==
    IF S = {} THEN 0
    ELSE LET i == SetMin(S) IN bars[i].Volume + VolumeOf(S \ {i})

Imbalance(k) == Abs(buckets[k].Buy_Vol - buckets[k].Sell_Vol)

\* C7: in bucket order the first window - 1 buckets have an undefined VPIN,
\* and every later bucket k has the sum of |Buy_Vol - Sell_Vol| over the
\* window buckets ending at k, over bucket_volume * window.
C7_TrailingWindowToxicity ==
    VpinReturned =>
        \A k \in 1..Len(buckets) :
            IF k < window
            THEN buckets[k].VPIN.na
            ELSE /\ ~buckets[k].VPIN.na
                 /\ buckets[k].VPIN.num =
                       SumSeq([j \in 1..window |-> Imbalance(k - window + j)])
                 /\ buckets[k].VPIN.den = bucket_volume * window

\* C7's case: a window of two or more over more buckets than the window, the
\* later ones with a toxicity above 0.
C7_Witness ==
    /\ VpinReturned
    /\ window >= 2
    /\ bucket_volume > 0
    /\ Len(buckets) > window
    /\ \E k \in window..Len(buckets) : buckets[k].VPIN.num > 0

\* C8: a call with bucket_volume <= 0 (here on one bar or more) ends in an
\* error, of whatever type, and returns no bucket sequence.
C8_NonPositiveBucketRejected ==
    (VpinCalled /\ bucket_volume <= 0 /\ Len(bars) >= 1) =>
        vpin_ret \in {"InvalidParameterError", "ValueError"}

\* C9 as stated, for a call with bucket_volume > 0 and three bars or more (so
\* that sigma is defined): every bucket's Buy_Vol + Sell_Vol is the volume of
\* all its member bars, the first bar of the input included.
C9_FirstBarVolumeCounted ==
    (VpinReturned /\ bucket_volume > 0 /\ Len(bars) >= 3) =>
        \A k \in 1..Len(buckets) :
            buckets[k].Buy_Vol + buckets[k].Sell_Vol = 1000 * VolumeOf(Members(k))

\* C9 amended: the first bar is a member of the bucket its own volume puts it
\* in, but its volume is in neither Buy_Vol nor Sell_Vol: every bucket's
\* Buy_Vol + Sell_Vol is the volume of its member bars other than the first
\* bar of the input, and 0 when the input has fewer than three bars.
C9_FirstBarVolumeInClockOnly ==
    (VpinReturned /\ Len(bars) >= 1) =>
        /\ \E k \in 1..Len(buckets) :
              /\ 1 \in Members(k)
              /\ IF bucket_volume > 0
                 THEN buckets[k].Bucket_ID = bars[1].Volume \div bucket_volume
                 ELSE buckets[k].Bucket_ID = (-bars[1].Volume) \div (-bucket_volume)
        /\ \A k \in 1..Len(buckets) :
              buckets[k].Buy_Vol + buckets[k].Sell_Vol =
                  IF Len(bars) < 3 THEN 0 ELSE 1000 * VolumeOf(Members(k) \ {1})

\* C9's case: three bars or more, the first with a volume above 0, in a
\* bucket that also holds classified volume.
C9_Witness ==
    /\ VpinReturned
    /\ Len(bars) >= 3
    /\ bars[1].Volume > 0
    /\ \E k \in 1..Len(buckets) :
          1 \in Members(k) /\ buckets[k].Buy_Vol + buckets[k].Sell_Vol > 0

\* The parts of C10 the amendment keeps: every bar is in the bucket of index
\* floor(cumulative volume / bucket_volume), the buckets come in increasing
\* index, and each is a run of consecutive bars ending at its Datetime.
BucketsAreRuns ==
    /\ \A i \in 1..Len(bars) : \E k \in 1..Len(buckets) :
          /\ buckets[k].Bucket_ID * bucket_volume <= VolumeThrough(i)
          /\ VolumeThrough(i) < (buckets[k].Bucket_ID + 1) * bucket_volume
    /\ \A k \in 1..(Len(buckets) - 1) : buckets[k].Bucket_ID < buckets[k + 1].Bucket_ID
    /\ \A k \in 1..Len(buckets) :
          Members(k) = ((IF k = 1 THEN 0 ELSE buckets[k - 1].Datetime) + 1)
                          ..buckets[k].Datetime
    /\ \A k \in 1..Len(buckets) : Members(k) # {}

\* C10 as stated: with bucket_volume > 0, besides BucketsAreRuns, the member
\* bars of every bucket but the last total at least bucket_volume.
C10_BucketsHoldOneUnit ==
    (VpinReturned /\ bucket_volume > 0) =>
        /\ BucketsAreRuns
        /\ \A k \in 1..(Len(buckets) - 1) : VolumeOf(Members(k)) >= bucket_volume

\* C10 amended: with bucket_volume > 0, besides BucketsAreRuns, the volume
\* traded up to and including a bucket's last bar is at least Bucket_ID and
\* less than Bucket_ID + 1 units of bucket_volume; a bucket's own bars may
\* total less than one unit.
C10_BucketsFollowVolumeClock ==
    (VpinReturned /\ bucket_volume > 0) =>
        /\ BucketsAreRuns
        /\ \A k \in 1..Len(buckets) :
              /\ VolumeThrough(buckets[k].Datetime) >= buckets[k].Bucket_ID * bucket_volume
              /\ VolumeThrough(buckets[k].Datetime) < (buckets[k].Bucket_ID + 1) * bucket_volume

\* C10's case: a bucket of two bars or more, and a bucket that is not the
\* last and holds less than one unit.
C10_Witness ==
    /\ VpinReturned
    /\ bucket_volume > 0
    /\ \E k \in 1..Len(buckets) : Cardinality(Members(k)) >= 2
    /\ \E k \in 1..(Len(buckets) - 1) : VolumeOf(Members(k)) < bucket_volume

====
